---- MODULE Spec2Model ----
(***************************************************************************)
(* Model of scripts/verify-addresses/implementations/python-verify.py:     *)
(* the command dispatcher main() and the two derivation functions          *)
(* derive_single_sig_bip_utils and derive_multisig_bip_utils.              *)
(*                                                                         *)
(* Byte strings are sequences of integers 0..255.  A command-line token    *)
(* that Python parses character by character (int(), str.lower()) is a     *)
(* sequence of one-character strings.  A Base58Check string is modelled by *)
(* what it decodes to: its first four characters, the version field, the   *)
(* rest of the payload and whether its checksum verifies.                  *)
(*                                                                         *)
(* The bip_utils library and hashlib are outside the repository.  Their    *)
(* calls are modelled as deterministic functions with the output lengths   *)
(* of the real ones (SHA-256: 32 bytes, RIPEMD-160: 20 bytes, compressed   *)
(* public key: 33 bytes); an address is the record of the encoder call     *)
(* that the source makes (encoder class, bytes passed, coin configuration, *)
(* net_ver keyword, script mode).  The parser is taken to accept the two   *)
(* canonical versions (xpub, tpub) and the encoders to return for every    *)
(* input they are given.                                                   *)
(***************************************************************************)
EXTENDS Integers, Sequences, FiniteSets, TLC

VARIABLES argv, HAS_BIP_UTILS, pc, stdout, exit_code, locals

vars == <<argv, HAS_BIP_UTILS, pc, stdout, exit_code, locals>>

(***************************************************************************)
(* Bounds of the model.                                                    *)
(***************************************************************************)
\* longest cosigner list passed to the multi command
MaxKeys == 2

(***************************************************************************)
(* Program constants.                                                      *)
(***************************************************************************)
OP_BASE == 80
OP_CHECKMULTISIG == 174
P2SH_MAINNET_VER == 5
P2SH_TESTNET_VER == 196
SINGLE_ARGC == 7
MULTI_ARGC == 8

XPUB_VERSION == <<4, 136, 178, 30>>
TPUB_VERSION == <<4, 53, 135, 207>>
MAINNET_PREFIXES == {"xpub", "ypub", "zpub", "Ypub", "Zpub"}
CANONICAL_PREFIXES == {"xpub", "tpub"}

(***************************************************************************)
(* Byte-string helpers (Python bytes semantics).                           *)
(***************************************************************************)
IsByte(n) == n \in 0..255

\* b[from:] for a 0-based Python index
SliceFrom(b, from) == IF from >= Len(b) THEN <<>> ELSE SubSeq(b, from + 1, Len(b))

\* b[from:to]
Slice(b, from, to) ==
    LET hi == IF to > Len(b) THEN Len(b) ELSE to
    IN IF from >= hi THEN <<>> ELSE SubSeq(b, from + 1, hi)

\* a < b for Python bytes: lexicographic on unsigned byte values,
\* a proper prefix sorts first
RECURSIVE BytesLessFrom(_, _, _)
BytesLessFrom(a, b, i) ==
    IF i > Len(a) THEN i <= Len(b)
    ELSE IF i > Len(b) THEN FALSE
    ELSE IF a[i] < b[i] THEN TRUE
    ELSE IF a[i] > b[i] THEN FALSE
    ELSE BytesLessFrom(a, b, i + 1)

BytesLess(a, b) == BytesLessFrom(a, b, 1)

\* insert k into the ascending list s, after the elements equal to it
RECURSIVE InsertSorted(_, _)
InsertSorted(s, k) ==
    IF s = <<>> THEN <<k>>
    ELSE IF BytesLess(k, Head(s)) THEN <<k>> \o s
    ELSE <<Head(s)>> \o InsertSorted(Tail(s), k)

\* list.sort() on a list of bytes objects
RECURSIVE SortKeys(_)
SortKeys(s) ==
    IF s = <<>> THEN <<>>
    ELSE InsertSorted(SortKeys(SubSeq(s, 1, Len(s) - 1)), s[Len(s)])

(***************************************************************************)
(* hashlib: deterministic digests of the real lengths.                     *)
(***************************************************************************)
\* <<v, p>> for b[lo..hi]: v is the sum of (b[i] + 1) * 33^(hi - i) and p is
\* 33^(hi - lo + 1), both modulo 32749, computed by halving the range
RECURSIVE Absorb(_, _, _)
Absorb(b, lo, hi) ==
    IF lo > hi THEN <<0, 1>>
    ELSE IF lo = hi THEN <<(b[lo] + 1) % 32749, 33>>
    ELSE LET mid == (lo + hi) \div 2
             l == Absorb(b, lo, mid)
             r == Absorb(b, mid + 1, hi)
         IN <<(l[1] * r[2] + r[1]) % 32749, (l[2] * r[2]) % 32749>>

Digest(b, seed, outlen) ==
    LET a == Absorb(b, 1, Len(b))
        h == (seed * a[2] + a[1]) % 32749
    IN [j \in 1..outlen |-> ((h + j) * (2 * j + 1) + (h \div 256)) % 256]

sha256(b) == Digest(b, 5381, 32)

ripemd160(b) == Digest(b, 1613, 20)

(***************************************************************************)
(* Results of a call that may raise.                                       *)
(***************************************************************************)
NoAddress == [encoder |-> "", key |-> <<>>, coin |-> "", net_ver |-> <<>>, mode |-> ""]

NoString == [prefix |-> "", ver |-> <<>>, body |-> <<>>, chk |-> FALSE]

(***************************************************************************)
(* bip_utils: Base58Check strings.  PrefixOfVersion gives the first four   *)
(* characters of the Base58Check encoding of a 78-byte payload that starts *)
(* with the given version field (SLIP-132 prefixes).                       *)
(***************************************************************************)
PrefixOfVersion(ver) ==
    CASE ver = <<4, 136, 178, 30>> -> "xpub"
      [] ver = <<4, 157, 124, 178>> -> "ypub"
      [] ver = <<4, 178, 71, 70>> -> "zpub"
      [] ver = <<2, 149, 180, 63>> -> "Ypub"
      [] ver = <<2, 170, 126, 211>> -> "Zpub"
      [] ver = <<4, 53, 135, 207>> -> "tpub"
      [] ver = <<4, 74, 82, 98>> -> "upub"
      [] ver = <<4, 95, 28, 246>> -> "vpub"
      [] ver = <<2, 66, 137, 239>> -> "Upub"
      [] ver = <<2, 87, 84, 131>> -> "Vpub"
      [] OTHER -> "1111"

\* Base58Decoder.CheckDecode: the payload without its checksum, or raises
CheckDecode(s) ==
    IF s.chk THEN [ok |-> TRUE, bytes |-> s.ver \o s.body, error |-> ""]
    ELSE [ok |-> FALSE, bytes |-> <<>>, error |-> "Invalid checksum"]

\* Base58Encoder.CheckEncode
CheckEncode(b) ==
    [prefix |-> PrefixOfVersion(Slice(b, 0, 4)),
     ver |-> Slice(b, 0, 4),
     body |-> SliceFrom(b, 4),
     chk |-> TRUE]

\* s[:4]
Prefix(s) == s.prefix

(***************************************************************************)
(* bip_utils: Bip32Secp256k1.  The extended key is                         *)
(* version(4) depth(1) fingerprint(4) child(4) chain code(32) key(33).     *)
(***************************************************************************)
NoCtx == [chain |-> <<>>, pub |-> <<>>]

FromExtendedKey(s) ==
    IF ~s.chk THEN [ok |-> FALSE, ctx |-> NoCtx, error |-> "Invalid checksum"]
    ELSE IF Len(s.ver) # 4 \/ Len(s.body) # 74
        THEN [ok |-> FALSE, ctx |-> NoCtx, error |-> "Invalid extended key length"]
    ELSE IF s.ver \notin {XPUB_VERSION, TPUB_VERSION}
        THEN [ok |-> FALSE, ctx |-> NoCtx, error |-> "Invalid extended key version"]
    ELSE IF s.body[42] \notin {2, 3}
        THEN [ok |-> FALSE, ctx |-> NoCtx, error |-> "Invalid public key"]
    ELSE [ok |-> TRUE,
          ctx |-> [chain |-> SubSeq(s.body, 10, 41), pub |-> SubSeq(s.body, 42, 74)],
          error |-> ""]

\* one non-hardened public child derivation step
ChildKey(ctx, i) ==
    [chain |-> [j \in 1..32 |-> (ctx.chain[j] * 3 + ctx.pub[j + 1] + i + j) % 256],
     pub |-> <<2 + ((ctx.pub[2] + ctx.chain[1] + i) % 2)>>
             \o [j \in 1..32 |-> (ctx.pub[j + 1] + ctx.chain[j] * 5 + i * 7 + j) % 256]]

\* bip32_ctx.DerivePath(f"{change_idx}/{index}").PublicKey().RawCompressed().ToBytes();
\* a negative element is no valid path.  The indexes of the model stay below
\* the hardened range.
DerivePath(ctx, change_idx, index) ==
    IF index < 0 THEN [ok |-> FALSE, pub_key |-> <<>>, error |-> "Invalid path"]
    ELSE [ok |-> TRUE,
          pub_key |-> ChildKey(ChildKey(ctx, change_idx), index).pub,
          error |-> ""]

(***************************************************************************)
(* bip_utils: the address encoders, as the calls the source makes.         *)
(***************************************************************************)
CoinsConf(is_mainnet) == IF is_mainnet THEN "BitcoinMainNet" ELSE "BitcoinTestNet"

EncodeKey(encoder, key, coin, net_ver, mode) ==
    [encoder |-> encoder, key |-> key, coin |-> coin, net_ver |-> net_ver, mode |-> mode]

(***************************************************************************)
(* Version normalisation, lines 66-74 (single) and 133-140 (multi).        *)
(***************************************************************************)
\* mutant: the mainnet version whatever the network
new_version_always_mainnet(is_mainnet) == XPUB_VERSION

new_version(is_mainnet) == IF is_mainnet THEN XPUB_VERSION ELSE TPUB_VERSION

ConvertVersion(xpub, is_mainnet) ==
    IF Prefix(xpub) \notin CANONICAL_PREFIXES
    THEN LET decoded == CheckDecode(xpub)
         IN IF ~decoded.ok THEN [ok |-> FALSE, xpub |-> NoString, error |-> decoded.error]
            ELSE [ok |-> TRUE,
                  xpub |-> CheckEncode(new_version(is_mainnet) \o SliceFrom(decoded.bytes, 4)),
                  error |-> ""]
    ELSE [ok |-> TRUE, xpub |-> xpub, error |-> ""]

\* normalise, parse and derive the compressed public key at change/index
DerivePubKey(xpub, is_mainnet, change_idx, index) ==
    LET conv == ConvertVersion(xpub, is_mainnet)
    IN IF ~conv.ok THEN [ok |-> FALSE, xpub |-> NoString, pub_key |-> <<>>, error |-> conv.error]
       ELSE LET parsed == FromExtendedKey(conv.xpub)
            IN IF ~parsed.ok
               THEN [ok |-> FALSE, xpub |-> conv.xpub, pub_key |-> <<>>, error |-> parsed.error]
               ELSE LET derived == DerivePath(parsed.ctx, change_idx, index)
                    IN [ok |-> derived.ok, xpub |-> conv.xpub,
                        pub_key |-> derived.pub_key, error |-> derived.error]

change_idx(change) == IF change THEN 1 ELSE 0

(***************************************************************************)
(* derive_single_sig_bip_utils                                             *)
(***************************************************************************)
\* mutant: zpub missing from the list of mainnet prefixes
SingleIsMainnet_without_zpub(xpub) == Prefix(xpub) \in {"xpub", "ypub", "Ypub", "Zpub"}

SingleIsMainnet(xpub) == Prefix(xpub) \in MAINNET_PREFIXES

\* mutant: no else branch, an unknown script type falls through to legacy
SingleAddress_default_legacy(pub_key, script_type, is_mainnet) ==
    IF script_type = "nested_segwit"
        THEN [ok |-> TRUE, error |-> "",
              address |-> EncodeKey("P2SHAddr", pub_key, CoinsConf(is_mainnet), <<>>, "P2WPKH")]
    ELSE IF script_type = "native_segwit"
        THEN [ok |-> TRUE, error |-> "",
              address |-> EncodeKey("P2WPKHAddr", pub_key, CoinsConf(is_mainnet), <<>>, "")]
    ELSE IF script_type = "taproot"
        THEN [ok |-> TRUE, error |-> "",
              address |-> EncodeKey("P2TRAddr", Slice(pub_key, 1, 33), CoinsConf(is_mainnet), <<>>, "")]
    ELSE [ok |-> TRUE, error |-> "",
          address |-> EncodeKey("P2PKHAddr", pub_key, CoinsConf(is_mainnet), <<>>, "")]

SingleAddress(pub_key, script_type, is_mainnet) ==
    IF script_type = "legacy"
        THEN [ok |-> TRUE, error |-> "",
              address |-> EncodeKey("P2PKHAddr", pub_key, CoinsConf(is_mainnet), <<>>, "")]
    ELSE IF script_type = "nested_segwit"
        THEN [ok |-> TRUE, error |-> "",
              address |-> EncodeKey("P2SHAddr", pub_key, CoinsConf(is_mainnet), <<>>, "P2WPKH")]
    ELSE IF script_type = "native_segwit"
        THEN [ok |-> TRUE, error |-> "",
              address |-> EncodeKey("P2WPKHAddr", pub_key, CoinsConf(is_mainnet), <<>>, "")]
    ELSE IF script_type = "taproot"
        THEN [ok |-> TRUE, error |-> "",
              address |-> EncodeKey("P2TRAddr", Slice(pub_key, 1, 33), CoinsConf(is_mainnet), <<>>, "")]
    ELSE [ok |-> FALSE, error |-> "Unknown script type", address |-> NoAddress]

derive_single_sig_bip_utils(xpub, index, script_type, change, network) ==
    LET is_mainnet == SingleIsMainnet(xpub)
        k == DerivePubKey(xpub, is_mainnet, change_idx(change), index)
    IN IF ~k.ok
       THEN [ok |-> FALSE, address |-> NoAddress, error |-> k.error,
             xpubs |-> <<k.xpub>>, pub_keys |-> <<>>, redeem_script |-> <<>>]
       ELSE LET a == SingleAddress(k.pub_key, script_type, is_mainnet)
            IN [ok |-> a.ok, address |-> a.address, error |-> a.error,
                xpubs |-> <<k.xpub>>, pub_keys |-> <<k.pub_key>>, redeem_script |-> <<>>]

(***************************************************************************)
(* derive_multisig_bip_utils                                               *)
(***************************************************************************)
MultiIsMainnet(network) == network = "mainnet"

\* the for loop of lines 130-145 over the first n items of xpubs; the first
\* item that raises ends the call
RECURSIVE DeriveKeys(_, _, _, _, _)
DeriveKeys(items, n, is_mainnet, cidx, index) ==
    IF n = 0 THEN [ok |-> TRUE, xpubs |-> <<>>, pub_keys |-> <<>>, error |-> ""]
    ELSE LET before == DeriveKeys(items, n - 1, is_mainnet, cidx, index)
         IN IF ~before.ok THEN before
            ELSE LET k == DerivePubKey(items[n], is_mainnet, cidx, index)
                 IN IF ~k.ok
                    THEN [ok |-> FALSE, xpubs |-> before.xpubs \o <<k.xpub>>,
                          pub_keys |-> before.pub_keys, error |-> k.error]
                    ELSE [ok |-> TRUE, xpubs |-> before.xpubs \o <<k.xpub>>,
                          pub_keys |-> before.pub_keys \o <<k.pub_key>>, error |-> ""]

\* redeem_script += bytes([len(pk)]) + pk, for each pk
RECURSIVE PushKeys(_)
PushKeys(pub_keys) ==
    IF pub_keys = <<>> THEN <<>>
    ELSE <<Len(Head(pub_keys))>> \o Head(pub_keys) \o PushKeys(Tail(pub_keys))

\* mutant: OP_M and OP_N exchanged
RedeemScript_swapped(pub_keys, threshold) ==
    IF ~IsByte(OP_BASE + threshold) \/ ~IsByte(OP_BASE + Len(pub_keys))
    THEN [ok |-> FALSE, script |-> <<>>, error |-> "bytes must be in range(0, 256)"]
    ELSE [ok |-> TRUE,
          script |-> <<OP_BASE + Len(pub_keys)>> \o PushKeys(pub_keys)
                     \o <<OP_BASE + threshold>> \o <<OP_CHECKMULTISIG>>,
          error |-> ""]

\* lines 152-156; bytes([n]) raises ValueError unless 0 <= n <= 255
RedeemScript(pub_keys, threshold) ==
    IF ~IsByte(OP_BASE + threshold) \/ ~IsByte(OP_BASE + Len(pub_keys))
    THEN [ok |-> FALSE, script |-> <<>>, error |-> "bytes must be in range(0, 256)"]
    ELSE [ok |-> TRUE,
          script |-> <<OP_BASE + threshold>> \o PushKeys(pub_keys)
                     \o <<OP_BASE + Len(pub_keys)>> \o <<OP_CHECKMULTISIG>>,
          error |-> ""]

P2SHNetVer(is_mainnet) == IF is_mainnet THEN <<P2SH_MAINNET_VER>> ELSE <<P2SH_TESTNET_VER>>

\* mutant: p2wsh encodes the HASH160 of the script instead of its SHA-256
MultiAddress_p2wsh_hash160(redeem_script, script_type, is_mainnet) ==
    LET script_hash == sha256(redeem_script)
        script_hash_160 == ripemd160(script_hash)
    IN IF script_type = "p2sh"
           THEN [ok |-> TRUE, error |-> "",
                 address |-> EncodeKey("P2SHAddr", script_hash_160, CoinsConf(is_mainnet),
                                       P2SHNetVer(is_mainnet), "")]
       ELSE IF script_type = "p2wsh"
           THEN [ok |-> TRUE, error |-> "",
                 address |-> EncodeKey("P2WSHAddr", script_hash_160, CoinsConf(is_mainnet), <<>>, "")]
       ELSE IF script_type = "p2sh_p2wsh"
           THEN LET witness_program == <<0, 32>> \o script_hash
                    wp_hash == ripemd160(sha256(witness_program))
                IN [ok |-> TRUE, error |-> "",
                    address |-> EncodeKey("P2SHAddr", wp_hash, CoinsConf(is_mainnet),
                                          P2SHNetVer(is_mainnet), "")]
       ELSE [ok |-> FALSE, error |-> "Unknown multisig script type", address |-> NoAddress]

\* lines 158-188
MultiAddress(redeem_script, script_type, is_mainnet) ==
    LET script_hash == sha256(redeem_script)
        script_hash_160 == ripemd160(script_hash)
    IN IF script_type = "p2sh"
           THEN [ok |-> TRUE, error |-> "",
                 address |-> EncodeKey("P2SHAddr", script_hash_160, CoinsConf(is_mainnet),
                                       P2SHNetVer(is_mainnet), "")]
       ELSE IF script_type = "p2wsh"
           THEN [ok |-> TRUE, error |-> "",
                 address |-> EncodeKey("P2WSHAddr", script_hash, CoinsConf(is_mainnet), <<>>, "")]
       ELSE IF script_type = "p2sh_p2wsh"
           THEN LET witness_program == <<0, 32>> \o script_hash
                    wp_hash == ripemd160(sha256(witness_program))
                IN [ok |-> TRUE, error |-> "",
                    address |-> EncodeKey("P2SHAddr", wp_hash, CoinsConf(is_mainnet),
                                          P2SHNetVer(is_mainnet), "")]
       ELSE [ok |-> FALSE, error |-> "Unknown multisig script type", address |-> NoAddress]

\* mutant: the keys are left in cosigner order
SortPubKeys_unsorted(pub_keys) == pub_keys

\* list.sort() of line 148
SortPubKeys(pub_keys) == SortKeys(pub_keys)

\* xpubs is the value json.loads returned: iterating a number raises TypeError
derive_multisig_bip_utils(xpubs, threshold, index, script_type, change, network) ==
    LET is_mainnet == MultiIsMainnet(network)
    IN IF xpubs.kind = "number"
       THEN [ok |-> FALSE, address |-> NoAddress, error |-> "'int' object is not iterable",
             xpubs |-> <<>>, pub_keys |-> <<>>, redeem_script |-> <<>>]
       ELSE LET ks == DeriveKeys(xpubs.items, Len(xpubs.items), is_mainnet,
                                 change_idx(change), index)
            IN IF ~ks.ok
               THEN [ok |-> FALSE, address |-> NoAddress, error |-> ks.error,
                     xpubs |-> ks.xpubs, pub_keys |-> ks.pub_keys, redeem_script |-> <<>>]
               ELSE LET pub_keys == SortPubKeys(ks.pub_keys)
                        rs == RedeemScript(pub_keys, threshold)
                    IN IF ~rs.ok
                       THEN [ok |-> FALSE, address |-> NoAddress, error |-> rs.error,
                             xpubs |-> ks.xpubs, pub_keys |-> pub_keys, redeem_script |-> <<>>]
                       ELSE LET a == MultiAddress(rs.script, script_type, is_mainnet)
                            IN [ok |-> a.ok, address |-> a.address, error |-> a.error,
                                xpubs |-> ks.xpubs, pub_keys |-> pub_keys,
                                redeem_script |-> rs.script]

(***************************************************************************)
(* Python built-ins used by main() on the command-line tokens.             *)
(***************************************************************************)
Digits == {"0", "1", "2", "3", "4", "5", "6", "7", "8", "9"}

DigitValue(c) ==
    CASE c = "0" -> 0 [] c = "1" -> 1 [] c = "2" -> 2 [] c = "3" -> 3 [] c = "4" -> 4
      [] c = "5" -> 5 [] c = "6" -> 6 [] c = "7" -> 7 [] c = "8" -> 8 [] c = "9" -> 9

RECURSIVE DecimalValue(_, _)
DecimalValue(t, n) == IF n = 0 THEN 0 ELSE DecimalValue(t, n - 1) * 10 + DigitValue(t[n])

\* int(token): an optional sign and at least one decimal digit, else ValueError
ParseInt(t) ==
    LET signed == t # <<>> /\ t[1] \in {"+", "-"}
        digits == IF signed THEN Tail(t) ELSE t
    IN IF digits = <<>> \/ \E i \in 1..Len(digits) : digits[i] \notin Digits
       THEN [ok |-> FALSE, value |-> 0, error |-> "invalid literal for int() with base 10"]
       ELSE [ok |-> TRUE,
             value |-> IF signed /\ t[1] = "-" THEN 0 - DecimalValue(digits, Len(digits))
                       ELSE DecimalValue(digits, Len(digits)),
             error |-> ""]

LowerChar(c) ==
    CASE c = "T" -> "t" [] c = "R" -> "r" [] c = "U" -> "u" [] c = "E" -> "e"
      [] c = "F" -> "f" [] c = "A" -> "a" [] c = "L" -> "l" [] c = "S" -> "s"
      [] c = "Y" -> "y" [] OTHER -> c

\* token.lower() == 'true'
ParseChange(t) == [i \in 1..Len(t) |-> LowerChar(t[i])] = <<"t", "r", "u", "e">>

\* json.loads(token)
JsonLoads(j) ==
    IF j.kind = "invalid"
    THEN [ok |-> FALSE, value |-> [kind |-> "invalid", items |-> <<>>],
          error |-> "Expecting value: line 1 column 1 (char 0)"]
    ELSE [ok |-> TRUE, value |-> j, error |-> ""]

(***************************************************************************)
(* Inputs: the extended-key strings and command-line tokens the model      *)
(* draws invocations from.                                                 *)
(***************************************************************************)
\* a 74-byte payload: depth, parent fingerprint, child number, chain code, key
Body(k) ==
    <<3>> \o [j \in 1..4 |-> (k * 29 + j) % 256] \o <<0, 0, 0, k>>
    \o [j \in 1..32 |-> (k * 37 + j * 11) % 256]
    \o <<2 + (k % 2)>> \o [j \in 1..32 |-> (k * 101 + j * 7) % 256]

MkString(ver, body, chk) ==
    [prefix |-> PrefixOfVersion(ver), ver |-> ver, body |-> body, chk |-> chk]

XpubA == MkString(<<4, 136, 178, 30>>, Body(1), TRUE)
ZpubB == MkString(<<4, 178, 71, 70>>, Body(2), TRUE)
TpubC == MkString(<<4, 53, 135, 207>>, Body(3), TRUE)
VpubA == MkString(<<4, 95, 28, 246>>, Body(1), TRUE)
\* a zpub with one character flipped: the checksum no longer verifies
ZpubFlipped == MkString(<<4, 178, 71, 70>>, Body(2), FALSE)
\* a Ypub-versioned payload one byte short
YpubShort == MkString(<<2, 149, 180, 63>>, SubSeq(Body(2), 1, 73), TRUE)

SingleXpubs == {XpubA, ZpubB, TpubC, VpubA, ZpubFlipped, YpubShort}
MultiXpubs == {XpubA, ZpubB, TpubC, ZpubFlipped}

RECURSIVE ListsOf(_, _)
ListsOf(S, n) ==
    IF n = 0 THEN {<<>>}
    ELSE LET shorter == ListsOf(S, n - 1)
         IN shorter \cup {l \o <<x>> : l \in {m \in shorter : Len(m) = n - 1}, x \in S}

JsonTokens ==
    {[kind |-> "array", items |-> l] : l \in ListsOf(MultiXpubs, MaxKeys)}
    \cup {[kind |-> "invalid", items |-> <<>>],
          [kind |-> "number", items |-> <<>>],
          [kind |-> "string", items |-> <<>>]}

IndexTokens == {<<"0">>, <<"1", "2">>, <<"-", "1">>, <<"x">>}
MultiIndexTokens == {<<"0">>, <<"-", "1">>}
ThresholdTokens == {<<"0">>, <<"1">>, <<"2">>, <<"1", "7">>, <<"2", "0", "0">>, <<"x">>}
ChangeTokens == {<<"T", "r", "u", "e">>, <<"f", "a", "l", "s", "e">>, <<"y", "e", "s">>}
Networks == {"mainnet", "testnet"}
SingleScriptTypes == {"legacy", "nested_segwit", "native_segwit", "taproot"}
MultiScriptTypes == {"p2sh", "p2wsh", "p2sh_p2wsh"}

NoJson == [kind |-> "invalid", items |-> <<>>]

Invocation(argc, command) ==
    [argc |-> argc, command |-> command, xpub |-> NoString, xpubs_json |-> NoJson,
     threshold |-> <<>>, index |-> <<>>, script_type |-> "", change |-> <<>>, network |-> ""]

SingleInvocations ==
    {[Invocation(SINGLE_ARGC, "single") EXCEPT
        !.xpub = x, !.index = i, !.script_type = st, !.change = c, !.network = n] :
      x \in SingleXpubs, i \in IndexTokens, st \in SingleScriptTypes \cup {"p2sh", "p2tr"},
      c \in ChangeTokens, n \in Networks}

MultiInvocations ==
    {[Invocation(MULTI_ARGC, "multi") EXCEPT
        !.xpubs_json = j, !.threshold = t, !.index = i, !.script_type = st,
        !.change = c, !.network = n] :
      j \in JsonTokens, t \in ThresholdTokens, i \in MultiIndexTokens,
      st \in MultiScriptTypes \cup {"legacy"}, c \in ChangeTokens, n \in Networks}

OtherInvocations ==
    {Invocation(1, ""), Invocation(2, "check"), Invocation(2, "verify"),
     Invocation(2, "single"), Invocation(MULTI_ARGC, "single"),
     Invocation(2, "multi"), Invocation(SINGLE_ARGC, "multi")}

(***************************************************************************)
(* main()                                                                  *)
(***************************************************************************)
Raised(msg) ==
    [ok |-> FALSE, address |-> NoAddress, error |-> msg,
     xpubs |-> <<>>, pub_keys |-> <<>>, redeem_script |-> <<>>]

NoLocals == [called |-> FALSE, ret |-> Raised("")]

\* lines 218-224
RunSingle(a) ==
    LET index == ParseInt(a.index)
    IN IF ~index.ok THEN [called |-> FALSE, ret |-> Raised(index.error)]
       ELSE [called |-> TRUE,
             ret |-> derive_single_sig_bip_utils(a.xpub, index.value, a.script_type,
                                                 ParseChange(a.change), a.network)]

\* lines 233-240
RunMulti(a) ==
    LET xpubs == JsonLoads(a.xpubs_json)
        threshold == ParseInt(a.threshold)
        index == ParseInt(a.index)
    IN IF ~xpubs.ok THEN [called |-> FALSE, ret |-> Raised(xpubs.error)]
       ELSE IF ~threshold.ok THEN [called |-> FALSE, ret |-> Raised(threshold.error)]
       ELSE IF ~index.ok THEN [called |-> FALSE, ret |-> Raised(index.error)]
       ELSE [called |-> TRUE,
             ret |-> derive_multisig_bip_utils(xpubs.value, threshold.value, index.value,
                                               a.script_type, ParseChange(a.change),
                                               a.network)]

\* mutant: the address line is printed before the failure is known
PrintOutcome_address_first(ret) ==
    IF ret.ok THEN <<[address |-> ret.address]>>
    ELSE <<[address |-> ret.address], [error |-> ret.error]>>

\* print(json.dumps({"address": address})), or the except clause of lines 247-249
PrintOutcome(ret) ==
    IF ret.ok THEN <<[address |-> ret.address]>> ELSE <<[error |-> ret.error]>>

ExitOutcome(ret) == IF ret.ok THEN 0 ELSE 1

Exit(out, code) ==
    /\ stdout' = stdout \o out
    /\ exit_code' = code
    /\ pc' = "done"
    /\ UNCHANGED <<argv, HAS_BIP_UTILS>>

Init ==
    /\ \/ HAS_BIP_UTILS = TRUE
          /\ argv \in SingleInvocations \cup MultiInvocations \cup OtherInvocations
       \/ HAS_BIP_UTILS = FALSE
          /\ argv \in OtherInvocations
    /\ pc = "start"
    /\ stdout = <<>>
    /\ exit_code = -1
    /\ locals = NoLocals

\* lines 192-194
MainNoCommand ==
    /\ pc = "start"
    /\ argv.argc < 2
    /\ locals' = NoLocals
    /\ Exit(<<[error |-> "Usage: python-verify.py <command> <args>"]>>, 1)

\* lines 198-205
MainCheck ==
    /\ pc = "start"
    /\ argv.argc >= 2
    /\ argv.command = "check"
    /\ locals' = NoLocals
    /\ Exit(<<[available |-> HAS_BIP_UTILS,
               version |-> IF HAS_BIP_UTILS THEN "1.13.0" ELSE "null",
               name |-> "bip_utils"]>>, 0)

\* lines 207-209
MainNoLibrary ==
    /\ pc = "start"
    /\ argv.argc >= 2
    /\ argv.command # "check"
    /\ ~HAS_BIP_UTILS
    /\ locals' = NoLocals
    /\ Exit(<<[error |-> "bip_utils library not installed. Run: pip install bip_utils"]>>, 1)

Dispatch(command) ==
    /\ pc = "start"
    /\ argv.argc >= 2
    /\ HAS_BIP_UTILS
    /\ argv.command = command

\* lines 214-216
MainSingleUsage ==
    /\ Dispatch("single")
    /\ argv.argc # SINGLE_ARGC
    /\ locals' = NoLocals
    /\ Exit(<<[error |-> "Usage: single <xpub> <index> <script_type> <change> <network>"]>>, 1)

\* lines 218-225, 247-249
MainSingle ==
    /\ Dispatch("single")
    /\ argv.argc = SINGLE_ARGC
    /\ locals' = RunSingle(argv)
    /\ Exit(PrintOutcome(locals'.ret), ExitOutcome(locals'.ret))

\* lines 229-231
MainMultiUsage ==
    /\ Dispatch("multi")
    /\ argv.argc # MULTI_ARGC
    /\ locals' = NoLocals
    /\ Exit(<<[error |-> "Usage: multi <xpubs_json> <threshold> <index> <script_type> <change> <network>"]>>, 1)

\* lines 233-241, 247-249
MainMulti ==
    /\ Dispatch("multi")
    /\ argv.argc = MULTI_ARGC
    /\ locals' = RunMulti(argv)
    /\ Exit(PrintOutcome(locals'.ret), ExitOutcome(locals'.ret))

\* lines 243-245
MainUnknownCommand ==
    /\ pc = "start"
    /\ argv.argc >= 2
    /\ HAS_BIP_UTILS
    /\ argv.command \notin {"check", "single", "multi"}
    /\ locals' = NoLocals
    /\ Exit(<<[error |-> "Unknown command"]>>, 1)

Next ==
    \/ MainNoCommand
    \/ MainCheck
    \/ MainNoLibrary
    \/ MainSingleUsage
    \/ MainSingle
    \/ MainMultiUsage
    \/ MainMulti
    \/ MainUnknownCommand

Spec == Init /\ [][Next]_vars

(***************************************************************************)
(* Reading a finished invocation.                                          *)
(***************************************************************************)
Done == pc = "done"

AddressEmitted == Done /\ Len(stdout) = 1 /\ DOMAIN stdout[1] = {"address"}

ErrorEmitted == Done /\ Len(stdout) = 1 /\ DOMAIN stdout[1] = {"error"}

\* derive_single_sig_bip_utils was entered
SingleCalled == Done /\ argv.command = "single" /\ locals.called

\* derive_multisig_bip_utils was entered
MultiCalled == Done /\ argv.command = "multi" /\ locals.called

ArgThreshold == ParseInt(argv.threshold).value
ArgIndex == ParseInt(argv.index).value
ArgChange == ParseChange(argv.change)
ArgItems == argv.xpubs_json.items

\* the text of a token is a decimal integer
IsIntegerToken(t) ==
    LET digits == IF t # <<>> /\ t[1] \in {"+", "-"} THEN Tail(t) ELSE t
    IN digits # <<>> /\ \A i \in 1..Len(digits) : digits[i] \in Digits

\* the text of a token is 'true' or 'false', in any letter case
IsBooleanToken(t) ==
    [i \in 1..Len(t) |-> LowerChar(t[i])] \in {<<"t", "r", "u", "e">>, <<"f", "a", "l", "s", "e">>}

\* an invocation with the right argument count and an argument that is not
\* of its kind
Malformed ==
    \/ /\ argv.command = "single"
       /\ argv.argc = SINGLE_ARGC
       /\ ~IsIntegerToken(argv.index) \/ ~IsBooleanToken(argv.change)
    \/ /\ argv.command = "multi"
       /\ argv.argc = MULTI_ARGC
       /\ \/ ~IsIntegerToken(argv.index)
          \/ ~IsIntegerToken(argv.threshold)
          \/ ~IsBooleanToken(argv.change)
          \/ argv.xpubs_json.kind # "array"

\* a multisig call on a JSON list with a boolean change flag
MultiCalledOnList ==
    MultiCalled /\ argv.xpubs_json.kind = "array" /\ IsBooleanToken(argv.change)

PermuteList(l, p) == [i \in 1..Len(l) |-> l[p[i]]]

\* the public keys of the supplied xpubs, each derived on its own, in input order
InputKeys == DeriveKeys(ArgItems, Len(ArgItems), MultiIsMainnet(argv.network),
                        change_idx(ArgChange), ArgIndex)

(***************************************************************************)
(* C1.  Cosigner-order invariance: for the list of xpubs of a finished     *)
(* multisig call and every permutation of it, derive_multisig_bip_utils    *)
(* with the same threshold, index, script type, change flag and network    *)
(* returns the same result: the same address, or an error in both cases.   *)
(***************************************************************************)
C1_OrderInvariance ==
    (MultiCalled /\ argv.xpubs_json.kind = "array") =>
        \A p \in Permutations(1..Len(ArgItems)) :
            LET r == derive_multisig_bip_utils(
                         [kind |-> "array", items |-> PermuteList(ArgItems, p)],
                         ArgThreshold, ArgIndex, argv.script_type, ArgChange, argv.network)
            IN /\ r.ok = locals.ret.ok
               /\ r.address = locals.ret.address

\* an address was returned for two cosigners whose keys were derived in
\* descending order, so the sort changed the order
C1_Witness ==
    /\ MultiCalled
    /\ AddressEmitted
    /\ Len(ArgItems) = 2
    /\ InputKeys.pub_keys # locals.ret.pub_keys

(***************************************************************************)
(* C2.  Threshold validation, as claimed: a multisig call whose threshold  *)
(* T is below 1 or above 16, whose cosigner count M is above 16, or with   *)
(* T > M, returns an error and never an address.  Stated for calls with    *)
(* well-formed arguments and at least one xpub, so that no violation rests *)
(* on the empty key set of C3 or the change flag of C5.                    *)
(***************************************************************************)
C2_ThresholdRejected ==
    (MultiCalledOnList /\ Len(ArgItems) >= 1
                 /\ (\/ ArgThreshold < 1
                     \/ ArgThreshold > 16
                     \/ Len(ArgItems) > 16
                     \/ ArgThreshold > Len(ArgItems))) =>
        (~locals.ret.ok /\ ErrorEmitted)

(***************************************************************************)
(* C3.  Empty key set, as claimed: a multisig call with an empty xpub list *)
(* (and well-formed arguments otherwise) fails with an error and never     *)
(* returns an address.                                                     *)
(***************************************************************************)
C3_EmptyKeySetRejected ==
    (MultiCalledOnList /\ ArgItems = <<>>) =>
        (~locals.ret.ok /\ ErrorEmitted)

(***************************************************************************)
(* C4.  Single outcome per call: nothing is printed before main() ends;    *)
(* a finished 'single' or 'multi' invocation has printed exactly one JSON  *)
(* object, whose only key is "address" or "error"; and an address is       *)
(* printed only when the derivation function was entered and returned      *)
(* that address without raising.                                           *)
(***************************************************************************)
C4_SingleOutcome ==
    /\ ~Done => stdout = <<>>
    /\ (Done /\ argv.command \in {"single", "multi"}) =>
        /\ Len(stdout) = 1
        /\ DOMAIN stdout[1] \in {{"address"}, {"error"}}
        /\ DOMAIN stdout[1] = {"address"} =>
            /\ argv.argc = (IF argv.command = "single" THEN SINGLE_ARGC ELSE MULTI_ARGC)
            /\ ParseInt(argv.index).ok
            /\ LET r == IF argv.command = "single"
                        THEN derive_single_sig_bip_utils(argv.xpub, ArgIndex, argv.script_type,
                                                         ArgChange, argv.network)
                        ELSE derive_multisig_bip_utils(argv.xpubs_json, ArgThreshold, ArgIndex,
                                                       argv.script_type, ArgChange, argv.network)
               IN r.ok /\ stdout[1].address = r.address

\* a failure inside the derivation ended in exactly one error object
C4_Witness ==
    /\ MultiCalled
    /\ ~locals.ret.ok
    /\ locals.ret.pub_keys # <<>>
    /\ stdout = <<[error |-> locals.ret.error]>>

(***************************************************************************)
(* C5.  Malformed arguments, as claimed: a 'single' or 'multi' invocation  *)
(* with the right argument count whose index or threshold is not an        *)
(* integer, whose change flag is neither 'true' nor 'false' (in any        *)
(* letter case), or whose key list is not well-formed JSON ends in an      *)
(* error and never in an address.                                          *)
(***************************************************************************)
C5_MalformedRejected ==
    (Done /\ HAS_BIP_UTILS /\ Malformed) => ErrorEmitted

(***************************************************************************)
(* C6.  Closed script-type set: a 'single' call returns an address only    *)
(* for script_type in {legacy, nested_segwit, native_segwit, taproot} and  *)
(* a 'multi' call only for script_type in {p2sh, p2wsh, p2sh_p2wsh}; for   *)
(* every other tag the call that reached the dispatch fails with an error. *)
(***************************************************************************)
C6_ClosedScriptTypes ==
    /\ (SingleCalled /\ argv.script_type \notin {"legacy", "nested_segwit", "native_segwit", "taproot"})
        => (~locals.ret.ok /\ ErrorEmitted)
    /\ (MultiCalled /\ argv.script_type \notin {"p2sh", "p2wsh", "p2sh_p2wsh"})
        => (~locals.ret.ok /\ ErrorEmitted)
    /\ (SingleCalled /\ AddressEmitted) =>
        argv.script_type \in {"legacy", "nested_segwit", "native_segwit", "taproot"}
    /\ (MultiCalled /\ AddressEmitted) =>
        argv.script_type \in {"p2sh", "p2wsh", "p2sh_p2wsh"}

\* a multisig tag given to the single-sig operation: the key was derived and
\* the dispatch on the script type raised
C6_Witness ==
    /\ SingleCalled
    /\ argv.script_type = "p2sh"
    /\ Len(locals.ret.pub_keys) = 1
    /\ ErrorEmitted

(***************************************************************************)
(* C7.  Network source: a single-sig call returns the same result for      *)
(* every value of the network argument, and the address it returns is      *)
(* encoded for mainnet, from a key parsed under the mainnet version,       *)
(* exactly when the first four characters of the xpub are one of xpub,     *)
(* ypub, zpub, Ypub, Zpub; a multisig address is encoded for mainnet       *)
(* exactly when the network argument is 'mainnet'.                         *)
(***************************************************************************)
C7_NetworkSource ==
    /\ SingleCalled =>
        \A n \in Networks \cup {"regtest", ""} :
            LET r == derive_single_sig_bip_utils(argv.xpub, ArgIndex, argv.script_type,
                                                 ArgChange, n)
            IN r.ok = locals.ret.ok /\ r.address = locals.ret.address
                                    /\ r.error = locals.ret.error
    /\ (SingleCalled /\ AddressEmitted) =>
        LET mainnet == argv.xpub.prefix \in {"xpub", "ypub", "zpub", "Ypub", "Zpub"}
        IN /\ stdout[1].address.coin = (IF mainnet THEN "BitcoinMainNet" ELSE "BitcoinTestNet")
           /\ locals.ret.xpubs[1].ver =
                  (IF mainnet THEN <<4, 136, 178, 30>> ELSE <<4, 53, 135, 207>>)
    /\ (MultiCalled /\ AddressEmitted) =>
        LET mainnet == argv.network = "mainnet"
            a == stdout[1].address
        IN /\ a.coin = (IF mainnet THEN "BitcoinMainNet" ELSE "BitcoinTestNet")
           /\ a.encoder = "P2SHAddr" => a.net_ver = (IF mainnet THEN <<5>> ELSE <<196>>)

\* a zpub given with network = 'testnet': the single-sig address is a mainnet one
C7_Witness ==
    /\ SingleCalled
    /\ AddressEmitted
    /\ argv.xpub.prefix = "zpub"
    /\ argv.network = "testnet"
    /\ stdout[1].address.coin = "BitcoinMainNet"

(***************************************************************************)
(* C8.  Redeem-script shape: for T the threshold and M the number of       *)
(* supplied xpubs, the redeem script is the byte 0x50+T, then for each     *)
(* derived key in ascending byte order its length byte and the key, then   *)
(* the byte 0x50+M, then 0xAE; the keys in the script are the derived keys *)
(* of the supplied xpubs, each once (duplicates kept), they are            *)
(* non-decreasing, and the script is 3 + 34*M bytes long.                  *)
(***************************************************************************)
C8_RedeemScriptShape ==
    (MultiCalled /\ locals.ret.redeem_script # <<>>) =>
        LET R == locals.ret.redeem_script
            K == locals.ret.pub_keys
            M == Len(ArgItems)
        IN /\ Len(K) = M
           /\ InputKeys.ok
           /\ \E p \in Permutations(1..M) : \A i \in 1..M : K[i] = InputKeys.pub_keys[p[i]]
           /\ \A i \in 1..(M - 1) : ~BytesLess(K[i + 1], K[i])
           /\ \A i \in 1..M : Len(K[i]) = 33
           /\ Len(R) = 3 + 34 * M
           /\ R[1] = 80 + ArgThreshold
           /\ \A i \in 1..M :
                 /\ R[2 + 34 * (i - 1)] = 33
                 /\ SubSeq(R, 3 + 34 * (i - 1), 35 + 34 * (i - 1)) = K[i]
           /\ R[Len(R) - 1] = 80 + M
           /\ R[Len(R)] = 174

\* a 1-of-2 script whose two keys were derived in descending order
C8_Witness ==
    /\ MultiCalled
    /\ Len(locals.ret.redeem_script) = 71
    /\ ArgThreshold = 1
    /\ InputKeys.pub_keys # locals.ret.pub_keys

(***************************************************************************)
(* C9.  Multisig hashing chain: for the redeem script R of a call that     *)
(* returned an address, p2sh passes RIPEMD160(SHA256(R)) to the P2SH       *)
(* encoder with version byte 0x05 (mainnet) or 0xC4 (testnet); p2wsh       *)
(* passes the 32-byte SHA256(R), not its HASH160, to the P2WSH encoder;    *)
(* p2sh_p2wsh passes HASH160 of the 34 bytes 0x00 0x20 SHA256(R) to the    *)
(* P2SH encoder with the P2SH version byte.                                *)
(***************************************************************************)
C9_HashingChain ==
    (MultiCalled /\ AddressEmitted) =>
        LET R == locals.ret.redeem_script
            a == stdout[1].address
            ver == IF argv.network = "mainnet" THEN <<5>> ELSE <<196>>
        IN /\ argv.script_type = "p2sh" =>
                /\ a.encoder = "P2SHAddr"
                /\ a.key = ripemd160(sha256(R))
                /\ Len(a.key) = 20
                /\ a.net_ver = ver
           /\ argv.script_type = "p2wsh" =>
                /\ a.encoder = "P2WSHAddr"
                /\ a.key = sha256(R)
                /\ Len(a.key) = 32
           /\ argv.script_type = "p2sh_p2wsh" =>
                /\ a.encoder = "P2SHAddr"
                /\ Len(<<0, 32>> \o sha256(R)) = 34
                /\ a.key = ripemd160(sha256(<<0, 32>> \o sha256(R)))
                /\ a.key # ripemd160(sha256(R))
                /\ a.net_ver = ver

\* a testnet p2sh_p2wsh address of a two-key script
C9_Witness ==
    /\ MultiCalled
    /\ AddressEmitted
    /\ argv.script_type = "p2sh_p2wsh"
    /\ argv.network = "testnet"
    /\ Len(locals.ret.pub_keys) = 2
    /\ stdout[1].address.net_ver = <<196>>

(***************************************************************************)
(* C10.  Version normalisation.  InputXpubs are the xpubs given to the     *)
(* call and locals.ret.xpubs the strings handed to the parser.             *)
(***************************************************************************)
InputXpubs == IF argv.command = "single" THEN <<argv.xpub>> ELSE ArgItems

Normalized(in, out, mainnet) ==
    IF in.prefix \in {"xpub", "tpub"} THEN out = in
    ELSE /\ out.ver = (IF mainnet THEN <<4, 136, 178, 30>> ELSE <<4, 53, 135, 207>>)
         /\ out.body = in.body
         /\ out.chk

\* C10 as claimed: on both paths an xpub whose prefix is xpub or tpub reaches
\* the parser unchanged, and any other has its version replaced by 0x0488B21E
\* when its own prefix is one of xpub, ypub, zpub, Ypub, Zpub and by
\* 0x043587CF otherwise, the rest of the payload kept
C10_NormalizedByPrefix ==
    (SingleCalled \/ MultiCalled) =>
        \A i \in 1..Len(locals.ret.xpubs) :
            locals.ret.xpubs[i] # NoString =>
                Normalized(InputXpubs[i], locals.ret.xpubs[i],
                           InputXpubs[i].prefix \in {"xpub", "ypub", "zpub", "Ypub", "Zpub"})

\* C10 as amended: the same, except that on the multisig path the replacing
\* version is 0x0488B21E when the network argument is 'mainnet' and
\* 0x043587CF otherwise, whatever the prefix of the xpub
C10_NormalizedByPath ==
    (SingleCalled \/ MultiCalled) =>
        \A i \in 1..Len(locals.ret.xpubs) :
            locals.ret.xpubs[i] # NoString =>
                Normalized(InputXpubs[i], locals.ret.xpubs[i],
                           IF argv.command = "single"
                           THEN InputXpubs[i].prefix \in {"xpub", "ypub", "zpub", "Ypub", "Zpub"}
                           ELSE argv.network = "mainnet")

\* a zpub in a multisig call with network = 'testnet' reached the parser with
\* the testnet version and an address was returned
C10_Witness ==
    /\ MultiCalled
    /\ AddressEmitted
    /\ argv.network = "testnet"
    /\ \E i \in 1..Len(locals.ret.xpubs) :
          /\ ArgItems[i].prefix = "zpub"
          /\ locals.ret.xpubs[i].ver = <<4, 53, 135, 207>>
          /\ locals.ret.xpubs[i].body = ArgItems[i].body

====
